---------------------------- MODULE Spec2Model ----------------------------
(***************************************************************************)
(* A model of the conflict-tracker update scripts:                         *)
(*   scripts/twitter-to-events.py, scripts/safe-update.py and              *)
(*   scripts/translate-existing-events.py.                                 *)
(*                                                                         *)
(* Strings that the code compares (event times) are sequences of digits    *)
(* compared lexicographically, as Python compares str.  A JSON object is a *)
(* function from field names to values; a field the object does not carry  *)
(* is a name outside its DOMAIN, read with Get as dict.get reads it.       *)
(***************************************************************************)
EXTENDS Integers, Sequences, FiniteSets, TLC

VARIABLES
    arg_existing,   \* merge_events: argument existing_events
    arg_new,        \* merge_events: argument new_events
    arg_max,        \* merge_events: argument max_events
    ret_all,        \* merge_events: the local all_events after the sort
    ret_merged,     \* merge_events: the returned list
    ret_again,      \* merge_events(ret_merged, arg_new, arg_max)
    call,           \* how far the merge_events calls have got
    p_tweet,        \* parse_tweet_to_event: argument tweet
    p_env,          \* parse_tweet_to_event: what the process and the backend do
    p_event,        \* parse_tweet_to_event: the returned event
    p_done,         \* parse_tweet_to_event has returned
    p_event2,       \* parse_tweet_to_event: the event of the same tweet in a later process
    store,          \* data/events.json: whether the file exists, and its events
    backup,         \* the backup file the running script has written
    script,         \* the script that runs, or ran last
    pc,             \* the place the running script has reached
    exit_code,      \* the exit status of the last run; -1 while a script runs
    existing_events,\* main: the events loaded from the Store
    all_tweets,     \* main: the raw messages fetched
    new_events,     \* main: the events made of them
    existing_news,  \* main: the news loaded from the Store
    news_items,     \* main: the news items made of the news fetched
    pre_store,      \* the Store as it was when the run started
    wrote,          \* the run has overwritten the Store file
    fn,             \* the function called on its own
    args,           \* its arguments
    ret,            \* what it returned
    returned        \* it has returned

mergeVars == <<arg_existing, arg_new, arg_max, ret_all, ret_merged, ret_again, call>>

parseVars == <<p_tweet, p_env, p_event, p_done, p_event2>>

runVars == <<store, backup, script, pc, exit_code, existing_events, all_tweets,
             new_events, existing_news, news_items, pre_store, wrote>>

callVars == <<fn, args, ret, returned>>

vars == <<mergeVars, parseVars, runVars, callVars>>

-----------------------------------------------------------------------------
(* Bounds of the model.                                                    *)

\* len(existing_events) + len(new_events) of one merge_events call
MaxMergeLen == 3

\* The default max_events of merge_events, which main uses.  It is 100 in
\* the source (line 566); the model scales it down so that a Store can
\* hold more events than the cap.
DEFAULT_MAX_EVENTS == 2

\* The events a Store holds at most: safe-update.py adds events without any
\* cap, and runs only while its result fits.
MaxStoreLen == 3

\* the raw messages the searches of one run return at most
MaxBatch == 2

\* the news items of one deduplicate_news argument at most
MaxNews == 2

\* the raw news items the news search of one run returns at most
MaxNewsBatch == 1

\* the tokens of a text classified at most
MaxTextLen == 2

\* the events of a list passed to a function at most
MaxEvents == 2

\* The number of templates at which create_templates stops.  It is 10 in
\* the source (line 777); the model scales it down so that a list of events
\* can hold more (type, country) pairs than the limit.
TEMPLATE_LIMIT == 2

-----------------------------------------------------------------------------
(* Values.                                                                 *)

\* Python's None
None == "None"

\* an optional id left out of an object
Missing == "Missing"

\* an optional time left out of an object
MissingTime == <<-1>>

Min(a, b) == IF a <= b THEN a ELSE b

Max(a, b) == IF a >= b THEN a ELSE b

\* dict.get(k, d)
Get(e, k, d) == IF k \in DOMAIN e THEN e[k] ELSE d

\* Python's str "<": lexicographic, a proper prefix is smaller
StrLess(a, b) ==
    \E k \in 1..Len(b) :
        /\ \A i \in 1..(k - 1) : i <= Len(a) /\ a[i] = b[i]
        /\ (k > Len(a) \/ a[k] < b[k])

\* The time strings of the model: "", "12" and "2" ("" < "12" < "2").
TimeStrings == {<<>>, <<1, 2>>, <<2>>}

\* The tweet ids of the model.
Ids == {"100", "200"}

\* s[:n]
PySliceTo(s, n) ==
    IF n >= 0
    THEN SubSeq(s, 1, Min(n, Len(s)))
    ELSE SubSeq(s, 1, Max(0, Len(s) + n))

\* sequences over S of length at most n
SeqsUpTo(S, n) == UNION {[1..k -> S] : k \in 0..n}

-----------------------------------------------------------------------------
(* merge_events (twitter-to-events.py).                                    *)

\* e.get("tweetId", e.get("id"))
IdentityKey(e) == Get(e, "tweetId", Get(e, "id", None))

\* the sort key: e.get("time", "")
TimeKey(e) == Get(e, "time", <<>>)

\* existing_tweet_ids
existing_tweet_ids(existing) ==
    {IdentityKey(existing[i]) : i \in DOMAIN existing}

unique_new_events_keep_all(existing, new) == new

\* unique_new_events
unique_new_events(existing, new) ==
    SelectSeq(new,
              LAMBDA e : IdentityKey(e) \notin existing_tweet_ids(existing))

\* One step of a stable descending sort: e goes after every element whose
\* key is not smaller than its own.
InsertDesc(sorted, e) ==
    LET p == Cardinality({i \in DOMAIN sorted :
                             ~StrLess(TimeKey(sorted[i]), TimeKey(e))})
    IN  SubSeq(sorted, 1, p) \o <<e>> \o SubSeq(sorted, p + 1, Len(sorted))

RECURSIVE SortByTimeDesc(_)
SortByTimeDesc_unsorted(s) == s

\* list.sort(key=lambda e: e.get("time", ""), reverse=True): stable
SortByTimeDesc(s) ==
    IF s = <<>> THEN <<>>
    ELSE InsertDesc(SortByTimeDesc(SubSeq(s, 1, Len(s) - 1)), s[Len(s)])

\* all_events, after the sort and before the cut
all_events(existing, new) ==
    SortByTimeDesc(existing \o unique_new_events(existing, new))

RECURSIVE DedupByKey(_)
\* a list without the later events of an identity key already seen
DedupByKey(s) ==
    IF s = <<>> THEN <<>>
    ELSE LET front == DedupByKey(SubSeq(s, 1, Len(s) - 1))
         IN  IF IdentityKey(s[Len(s)]) \in existing_tweet_ids(front)
             THEN front ELSE Append(front, s[Len(s)])

merge_events_dedup_all(existing, new, max_events) ==
    PySliceTo(SortByTimeDesc(DedupByKey(existing \o new)), max_events)

merge_events(existing, new, max_events) ==
    PySliceTo(all_events(existing, new), max_events)

-----------------------------------------------------------------------------
(* Text.  A text is a sequence of tokens; a token stands for a run of      *)
(* characters of one script.  "tehran_zh" stands for the Chinese place     *)
(* name of line 120 and "ghara_ar" for an Arabic word.  The texts of the   *)
(* model are shorter than every length the code cuts at (50, 100, 200, 500 *)
(* characters) and are lower-case, so s[:n], strip() and lower() leave     *)
(* them as they are.                                                       *)

\* None, where a text is expected
NoneText == <<None>>

\* Python's truth value of a text or None
Truthy(x) == x # NoneText /\ x # <<>>

\* Python's truth value of an id or None
TruthyId(x) == x # None /\ x # ""

\* the script of a token's characters
Script(tok) ==
    CASE tok = "tehran_zh" -> "cjk"
      [] tok = "ghara_ar" -> "arabic"
      [] OTHER -> "ascii"

\* tok in text
Contains(text, tok) == \E i \in DOMAIN text : text[i] = tok

\* str.lower() of a token: a token in capitals stands for the characters
\* of the lower-case token in upper case
LowerTok(tok) ==
    CASE tok = "ISRAEL" -> "israel"
      [] tok = "IRAN" -> "iran"
      [] tok = "STRIKE" -> "strike"
      [] OTHER -> tok

\* text.lower()
Lower(text) == [i \in DOMAIN text |-> LowerTok(text[i])]

-----------------------------------------------------------------------------
(* The tables of twitter-to-events.py, cut to the tokens of the model and  *)
(* kept in the order of the source.                                        *)

LANGUAGES == <<"zh", "en", "ar">>

EVENT_TYPE_PATTERNS ==
    << [type |-> "strike", patterns |-> <<"strike">>],
       [type |-> "blockade", patterns |-> <<"blockade">>],
       [type |-> "airspace", patterns |-> <<"airspace">>],
       [type |-> "intel", patterns |-> <<"radar">>],
       [type |-> "diplomatic", patterns |-> <<"warn">>] >>

\* DEFAULT_CONFIG["countryMapping"]
countryMapping ==
    << [keyword |-> "israel", country |-> "israel"],
       [keyword |-> "iran", country |-> "iran"],
       [keyword |-> "usa", country |-> "usa"] >>

\* coordinates in hundredths of a degree
DEFAULT_LOCATIONS == << [name |-> "tehran_zh", coordinates |-> <<3569, 5139>>] >>

COUNTRY_COORDINATES ==
    << [country |-> "israel", coordinates |-> <<3200, 3500>>],
       [country |-> "iran", coordinates |-> <<3200, 5300>>],
       [country |-> "usa", coordinates |-> <<2850, 4500>>] >>

\* country.upper()
Upper(country) ==
    CASE country = "israel" -> "ISRAEL"
      [] country = "iran" -> "IRAN"
      [] country = "usa" -> "USA"
      [] OTHER -> country

-----------------------------------------------------------------------------
(* The event normalizer (twitter-to-events.py).                            *)

\* the smallest element of a non-empty set of numbers
Least(S) == CHOOSE k \in S : \A j \in S : k <= j

\* the greatest element of a non-empty set of numbers
Greatest(S) == CHOOSE k \in S : \A j \in S : k >= j

\* the types of EVENT_TYPE_PATTERNS with a pattern found in text.lower()
TypeHits(text) ==
    {k \in DOMAIN EVENT_TYPE_PATTERNS :
        \E j \in DOMAIN EVENT_TYPE_PATTERNS[k].patterns :
            Contains(Lower(text), EVENT_TYPE_PATTERNS[k].patterns[j])}

classify_event_type_last_match(text) ==
    IF TypeHits(text) = {} THEN "intel"
    ELSE EVENT_TYPE_PATTERNS[Greatest(TypeHits(text))].type

classify_event_type(text) ==
    IF TypeHits(text) = {} THEN "intel"
    ELSE EVENT_TYPE_PATTERNS[Least(TypeHits(text))].type

\* the longest known location name in the text, or None
extract_location_from_text(text) ==
    LET hits == {k \in DOMAIN DEFAULT_LOCATIONS : Contains(text, DEFAULT_LOCATIONS[k].name)}
    IN  IF hits = {} THEN NoneText ELSE <<DEFAULT_LOCATIONS[Least(hits)].name>>

detect_country(text) ==
    LET hits == {k \in DOMAIN countryMapping :
                    Contains(Lower(text), LowerTok(countryMapping[k].keyword))}
    IN  IF hits = {} THEN "iran" ELSE countryMapping[Least(hits)].country

get_coordinates_country_first(location_name, country) ==
    LET locs == {k \in DOMAIN DEFAULT_LOCATIONS : <<DEFAULT_LOCATIONS[k].name>> = location_name}
        ctrs == {k \in DOMAIN COUNTRY_COORDINATES : COUNTRY_COORDINATES[k].country = country}
    IN  IF ctrs # {}
        THEN COUNTRY_COORDINATES[Least(ctrs)].coordinates
        ELSE IF Truthy(location_name) /\ locs # {}
             THEN DEFAULT_LOCATIONS[Least(locs)].coordinates
             ELSE <<2800, 4300>>

get_coordinates(location_name, country) ==
    LET locs == {k \in DOMAIN DEFAULT_LOCATIONS : <<DEFAULT_LOCATIONS[k].name>> = location_name}
        ctrs == {k \in DOMAIN COUNTRY_COORDINATES : COUNTRY_COORDINATES[k].country = country}
    IN  IF Truthy(location_name) /\ locs # {}
        THEN DEFAULT_LOCATIONS[Least(locs)].coordinates
        ELSE IF ctrs # {}
             THEN COUNTRY_COORDINATES[Least(ctrs)].coordinates
             ELSE <<2800, 4300>>

\* what GoogleTranslator.translate returns for a text when the call succeeds
BackendTranslate(text, target_lang) ==
    <<IF target_lang = "zh" THEN "zh-CN:" ELSE target_lang \o ":">> \o text

\* translate_text, for the call that translates `field` into target_lang:
\* env.backend says whether that call of the backend raises.
translate_text(text, target_lang, field, env) ==
    IF ~env.available THEN NoneText
    ELSE IF target_lang \notin {"zh", "en", "ar"} THEN NoneText
    ELSE IF env.backend[<<target_lang, field>>] = "fail" THEN NoneText
    ELSE BackendTranslate(text, target_lang)

\* original_lang of create_translated_content
original_lang(title) ==
    IF \E i \in DOMAIN title : Script(title[i]) = "cjk" THEN "zh"
    ELSE IF \E i \in DOMAIN title : Script(title[i]) = "arabic" THEN "ar"
    ELSE "en"

create_translated_content_none_on_failure(title, desc, location_name, env) ==
    [lang \in {"zh", "en", "ar"} |->
        IF ~env.available \/ lang = original_lang(title)
        THEN [title |-> title, desc |-> desc, locationName |-> location_name]
        ELSE [title |-> translate_text(title, lang, "title", env),
              desc |-> translate_text(desc, lang, "desc", env),
              locationName |-> translate_text(location_name, lang, "locationName", env)]]

create_translated_content(title, desc, location_name, env) ==
    [lang \in {"zh", "en", "ar"} |->
        IF ~env.available \/ lang = original_lang(title)
        THEN [title |-> title, desc |-> desc, locationName |-> location_name]
        ELSE LET title_trans == translate_text(title, lang, "title", env)
                 desc_trans == translate_text(desc, lang, "desc", env)
                 loc_trans == translate_text(location_name, lang, "locationName", env)
             IN  [title |-> IF Truthy(title_trans) THEN title_trans ELSE title,
                  desc |-> IF Truthy(desc_trans) THEN desc_trans ELSE desc,
                  locationName |->
                      IF Truthy(location_name) /\ Truthy(loc_trans)
                      THEN loc_trans ELSE location_name]]

\* str(hash(text)): 0 for the empty text, otherwise a number that depends
\* on the text and on the hash seed of the process
PyStrHash(text, seed) ==
    IF text = <<>> THEN "0" ELSE "hash" \o ToString(seed) \o "-" \o text[1]

\* A JSON value that is not an object has no get: tweet.get and author.get
\* raise AttributeError.
IsObject(v) == v.json = "object"

\* tweet.get("author") or tweet.get("user") or {}
AuthorOf(tweet) ==
    LET a == Get(tweet, "author", [json |-> "null"])
    IN  IF a.json = "null" THEN [json |-> "object"] ELSE a

\* parse_tweet_to_event(tweet, config) raises
ParseRaises(tweet) ==
    \/ ~IsObject(tweet)
    \/ ~IsObject(AuthorOf(tweet))

\* A raw timestamp is a JSON value of one of these forms:
\*   "iso"     an ISO-8601 string of the instant, with or without "Z"
\*   "legacy"  "%a %b %d %H:%M:%S %z %Y" of the instant, wday and month
\*             being the characters of the two abbreviations
\*   "garbage" a string in neither format
\*   "empty"   ""
\*   "number"  a value that is no string
\* "T" in created_at
HasT(created_at) ==
    \/ created_at.form = "iso"
    \/ /\ created_at.form = "legacy"
       /\ \/ \E i \in DOMAIN created_at.wday : created_at.wday[i] = "T"
          \/ \E i \in DOMAIN created_at.month : created_at.month[i] = "T"

\* the timestamp parse of parse_tweet_to_event (lines 398-413) and of
\* normalize_news_item (lines 636-647): dt.isoformat(), the ISO string of
\* the instant parsed or of now.  datetime.fromisoformat raises ValueError
\* on a string that is not ISO, and strptime on one that is not legacy.
parse_timestamp(created_at, now) ==
    IF created_at.form = "number" THEN now
    ELSE IF HasT(created_at)
         THEN IF created_at.form = "iso" THEN created_at.instant ELSE now
         ELSE IF created_at.form = "legacy" THEN created_at.instant ELSE now

\* the same for a timestamp that is "" or the ISO string of an instant
ParseCreatedAt(created_at, now) ==
    IF created_at = <<>> THEN parse_timestamp([form |-> "empty"], now)
    ELSE parse_timestamp([form |-> "iso", instant |-> created_at], now)

\* parse_tweet_to_event(tweet, config), for a tweet on which it does not raise
parse_tweet_to_event(tweet, env) ==
    LET text == Get(tweet, "text", <<>>)
        tweet_id == IF TruthyId(Get(tweet, "id", None)) THEN tweet["id"]
                    ELSE PyStrHash(text, env.seed)
        author == AuthorOf(tweet)
        username == IF TruthyId(Get(author, "username", None))
                    THEN author["username"] ELSE "unknown"
        country == detect_country(text)
        location_name == extract_location_from_text(text)
        title == text
        translated == create_translated_content(
                          title, text,
                          IF Truthy(location_name) THEN location_name
                          ELSE <<Upper(country)>>,
                          env)
    IN  [id |-> tweet_id,
         type |-> classify_event_type(text),
         country |-> country,
         title |-> translated["zh"].title,
         desc |-> translated["zh"].desc,
         location |-> get_coordinates(location_name, country),
         locationName |-> translated["zh"].locationName,
         time |-> ParseCreatedAt(Get(tweet, "createdAt", <<>>), env.now),
         source |-> "@" \o username,
         tweetId |-> tweet_id,
         url |-> "https://twitter.com/" \o username \o "/status/" \o tweet_id,
         isNew |-> FALSE,
         translations |-> translated]

-----------------------------------------------------------------------------
(* News (twitter-to-events.py).  In the texts of news items and of ticker  *)
(* entries a token stands for ten characters, so that text[:50] is the     *)
(* first five tokens and text[:100] the first ten.                         *)

ME_KEYWORDS == <<"israel", "iran", "tehran_zh">>

NEWS_CATEGORIES ==
    << [category |-> "military", patterns |-> <<"strike">>],
       [category |-> "diplomatic", patterns |-> <<"talks">>],
       [category |-> "humanitarian", patterns |-> <<"aid">>] >>

\* item.get("text") or item.get("title", "")
NewsText(item) ==
    IF Truthy(Get(item, "text", NoneText)) THEN item["text"]
    ELSE Get(item, "title", <<>>)

is_news_relevant(news_item) ==
    \E k \in DOMAIN ME_KEYWORDS : Contains(Lower(NewsText(news_item)), ME_KEYWORDS[k])

\* key = text[:50].lower()
NewsKey(item) == Lower(PySliceTo(NewsText(item), 5))

RECURSIVE DedupLoop(_, _, _)
\* the second loop of deduplicate_news, with seen and unique_items as they
\* stand
DedupLoop(items, seen, unique_items) ==
    IF items = <<>> THEN unique_items
    ELSE LET key == NewsKey(Head(items))
         IN  IF key \notin seen
             THEN DedupLoop(Tail(items), seen \cup {key}, Append(unique_items, Head(items)))
             ELSE DedupLoop(Tail(items), seen, unique_items)

deduplicate_news_unseeded(items, existing) == DedupLoop(items, {}, <<>>)

deduplicate_news(items, existing) ==
    DedupLoop(items, {NewsKey(existing[i]) : i \in DOMAIN existing}, <<>>)

categorize_news(news_item) ==
    LET hits == {k \in DOMAIN NEWS_CATEGORIES :
                    \E j \in DOMAIN NEWS_CATEGORIES[k].patterns :
                        Contains(Lower(NewsText(news_item)), NEWS_CATEGORIES[k].patterns[j])}
    IN  IF hits = {} THEN "general" ELSE NEWS_CATEGORIES[Least(hits)].category

\* normalize_news_item(raw_item), for an item that is an object and has no
\* author
normalize_news_item(raw_item, env) ==
    LET text == NewsText(raw_item)
        source == Get(raw_item, "source", "Unknown")
    IN  [id |-> IF TruthyId(Get(raw_item, "id", None)) THEN raw_item["id"]
                ELSE "news_" \o PyStrHash(text, env.seed),
         title |-> IF Len(text) > 10 THEN PySliceTo(text, 10) \o <<"...">> ELSE text,
         text |-> text,
         category |-> categorize_news(raw_item),
         source |-> "@" \o source,
         time |-> ParseCreatedAt(Get(raw_item, "createdAt", <<>>), env.now),
         url |-> Get(raw_item, "url", "")]

\* main, lines 826-834: the news items of the raw news fetched
news_items_of(raw_news, existing, env) ==
    LET relevant_news == SelectSeq(raw_news, is_news_relevant)
        unique_news == deduplicate_news(relevant_news, existing)
    IN  [i \in DOMAIN unique_news |-> normalize_news_item(unique_news[i], env)]

\* main, lines 823-831, raises: is_news_relevant calls get on an item that
\* is not an object, or normalize_news_item calls get on an author that is
\* not an object
NewsRaises(raw_news, existing) ==
    \/ \E i \in DOMAIN raw_news : ~IsObject(raw_news[i])
    \/ /\ \A i \in DOMAIN raw_news : IsObject(raw_news[i])
       /\ LET unique_news == deduplicate_news(SelectSeq(raw_news, is_news_relevant), existing)
          IN  \E i \in DOMAIN unique_news : ~IsObject(AuthorOf(unique_news[i]))

\* main, lines 862-865: merged_news
merged_news(existing, items) == PySliceTo(SortByTimeDesc(existing \o items), 100)

-----------------------------------------------------------------------------
(* The derived views (twitter-to-events.py).  A ticker entry, a formatted  *)
(* string in the code, is the record of the author and the text put into   *)
(* it.  The token "url" stands for ten characters of a URL.                *)

\* the dedup key of add_ticker_item: text[:40].lower(), without URLs
TickerKey(text) == SelectSeq(Lower(PySliceTo(text, 4)), LAMBDA tok : tok # "url")

\* formatted, in add_ticker_item
TickerFormat(text, author) ==
    IF TruthyId(author)
    THEN [author |-> author, text |-> PySliceTo(text, 8)]
    ELSE [author |-> None, text |-> PySliceTo(text, 10)]

RECURSIVE AddTickerItems(_, _, _)
\* add_ticker_item called on each (text, author) of calls in turn, with
\* seen_keys and ticker_texts[lang] as they stand; len(key) < 10 is a key
\* without any token
AddTickerItems(calls, seen_keys, texts) ==
    IF calls = <<>> THEN texts
    ELSE LET key == TickerKey(Head(calls).text)
         IN  IF key \in seen_keys \/ key = <<>>
             THEN AddTickerItems(Tail(calls), seen_keys, texts)
             ELSE AddTickerItems(Tail(calls), seen_keys \cup {key},
                                 Append(texts, TickerFormat(Head(calls).text,
                                                            Head(calls).author)))

\* tweet.get("text") or tweet.get("full_text", "")
TweetText(tweet) ==
    IF Truthy(Get(tweet, "text", NoneText)) THEN tweet["text"]
    ELSE Get(tweet, "full_text", <<>>)

\* the add_ticker_item calls of the loop over news_items[:15]
NewsTickerCalls(items) ==
    LET shown == SelectSeq(PySliceTo(items, 15),
                           LAMBDA item : Truthy(NewsText(item)) /\ is_news_relevant(item))
    IN  [i \in DOMAIN shown |-> [text |-> NewsText(shown[i]), author |-> None]]

\* the add_ticker_item calls of the loop over tweets[:10]
TweetTickerCalls(tweets) ==
    LET shown == SelectSeq(PySliceTo(tweets, 10), LAMBDA tweet : Truthy(TweetText(tweet)))
    IN  [i \in DOMAIN shown |->
            [text |-> TweetText(shown[i]),
             author |-> IF TruthyId(Get(AuthorOf(shown[i]), "username", None))
                        THEN AuthorOf(shown[i])["username"] ELSE "unknown"]]

\* create_ticker_texts(news_items, tweets), for items and tweets on which
\* it does not raise
create_ticker_texts(items, tweets) ==
    LET texts == AddTickerItems(NewsTickerCalls(items) \o TweetTickerCalls(tweets), {}, <<>>)
    IN  [lang \in {"zh", "en", "ar"} |-> PySliceTo(texts, 15)]

\* key = (event.get("type"), event.get("country"))
TemplateKey(event) == <<Get(event, "type", None), Get(event, "country", None)>>

RECURSIVE TemplateLoop(_, _, _)
\* the loop of create_templates over events, with seen_combinations and the
\* events templates were made of as they stand: the events templates are
\* made of
TemplateLoop(events, seen_combinations, picked) ==
    IF events = <<>> THEN picked
    ELSE IF TemplateKey(Head(events)) \in seen_combinations
         THEN TemplateLoop(Tail(events), seen_combinations, picked)
         ELSE IF Len(picked) + 1 >= TEMPLATE_LIMIT
              THEN Append(picked, Head(events))
              ELSE TemplateLoop(Tail(events),
                                seen_combinations \cup {TemplateKey(Head(events))},
                                Append(picked, Head(events)))

\* base_template["translations"][lang]
TemplateTranslation(event, lang) ==
    LET lang_trans == Get(Get(event, "translations", <<>>), lang, <<>>)
    IN  [title |-> Get(lang_trans, "title", Get(event, "title", <<>>)),
         desc |-> Get(lang_trans, "desc", Get(event, "desc", <<>>)),
         locationName |-> Get(lang_trans, "locationName", Get(event, "locationName", <<>>))]

\* the template appended to templates[lang] for an event
Template(event, lang) ==
    [type |-> Get(event, "type", None),
     country |-> Get(event, "country", None),
     location |-> Get(event, "location", <<>>),
     source |-> Get(event, "source", "Unknown"),
     url |-> Get(event, "url", ""),
     tweetId |-> Get(event, "tweetId", ""),
     title |-> TemplateTranslation(event, lang).title,
     desc |-> TemplateTranslation(event, lang).desc,
     locationName |-> TemplateTranslation(event, lang).locationName,
     translations |-> [l \in {"zh", "en", "ar"} |-> TemplateTranslation(event, l)]]

create_templates_of_every_event(events) ==
    [lang \in {"zh", "en", "ar"} |->
        [i \in DOMAIN events |-> Template(events[i], lang)]]

create_templates(events) ==
    LET picked == TemplateLoop(events, {}, <<>>)
    IN  [lang \in {"zh", "en", "ar"} |->
            [i \in DOMAIN picked |-> Template(picked[i], lang)]]

-----------------------------------------------------------------------------
(* main of twitter-to-events.py.                                           *)

\* load_json_file(EVENTS_FILE, {"events": [], ...}).get("events", [])
load_events(file) == IF file.exists THEN file.events ELSE <<>>

\* load_json_file(EVENTS_FILE, {..., "news": []}).get("news", [])
load_news(file) == IF file.exists THEN file.news ELSE <<>>

RECURSIVE ParseAll(_, _)
\* the loop of lines 840-847: the events of the tweets, a tweet on which
\* parse_tweet_to_event raises being skipped
ParseAll(tweets, env) ==
    IF tweets = <<>> THEN <<>>
    ELSE IF ParseRaises(Head(tweets)) THEN ParseAll(Tail(tweets), env)
    ELSE <<parse_tweet_to_event(Head(tweets), env)>> \o ParseAll(Tail(tweets), env)

\* create_ticker_texts(news_items, tweets) raises: in its loop over
\* tweets[:10], tweet.get on a tweet that is no object, or author.get on an
\* author that is no object when the text is not empty
TickerRaises(tweets) ==
    \E i \in 1..Min(10, Len(tweets)) :
        \/ ~IsObject(tweets[i])
        \/ Truthy(Get(tweets[i], "text", <<>>)) /\ ~IsObject(AuthorOf(tweets[i]))

-----------------------------------------------------------------------------
(* main of safe-update.py.                                                 *)

\* the event object of lines 88-108; "israel_zh" stands for the Chinese
\* name of line 95
safe_event(tweet, now) ==
    LET tweet_id == tweet["id"]
        text == Get(tweet, "text", <<>>)
        username == Get(Get(tweet, "author", [json |-> "object"]), "username", "unknown")
    IN  [id |-> tweet_id,
         type |-> "intel",
         country |-> "israel",
         title |-> text,
         desc |-> text,
         location |-> <<3200, 3500>>,
         locationName |-> <<"israel_zh">>,
         time |-> Get(tweet, "createdAt", now),
         source |-> "@" \o username,
         tweetId |-> tweet_id,
         url |-> "https://twitter.com/" \o username \o "/status/" \o tweet_id,
         isNew |-> TRUE,
         translations |->
             [zh |-> [title |-> text, desc |-> text, locationName |-> <<"israel_zh">>]]]

RECURSIVE SafeLoop(_, _, _, _)
\* the loop of lines 78-111 over the tweets found, with existing_tweet_ids
\* and new_events as they stand: whether it raises, and new_events after it
SafeLoop(tweets, seen, acc, now) ==
    IF tweets = <<>> THEN [raised |-> FALSE, new |-> acc]
    ELSE LET tweet == Head(tweets)
         IN  IF ~IsObject(tweet) THEN [raised |-> TRUE, new |-> acc]
             ELSE IF ~TruthyId(Get(tweet, "id", None)) \/ tweet["id"] \in seen
                  THEN SafeLoop(Tail(tweets), seen, acc, now)
             ELSE IF ~IsObject(Get(tweet, "author", [json |-> "object"]))
                  THEN [raised |-> TRUE, new |-> acc]
             ELSE SafeLoop(Tail(tweets), seen \cup {tweet["id"]},
                           Append(acc, safe_event(tweet, now)), now)

\* existing_tweet_ids of line 70
safe_existing_tweet_ids(events) == {Get(events[i], "tweetId", None) : i \in DOMAIN events}

-----------------------------------------------------------------------------
(* translate-existing-events.py.                                           *)

\* translate_text of translate-existing-events.py
translate_text_existing(text, target_lang, field, env) ==
    IF target_lang \notin {"zh", "en", "ar"} THEN NoneText
    ELSE IF env.backend[<<target_lang, field>>] = "fail" THEN NoneText
    ELSE BackendTranslate(text, target_lang)

\* the event after complete_translations(event)
complete_translations_overwrite(event, env) ==
    LET trans == Get(event, "translations", <<>>)
        source == [title |-> Get(event, "title", <<>>),
                   desc |-> Get(event, "desc", <<>>),
                   locationName |-> Get(event, "locationName", <<>>)]
        entry(lang) ==
            [f \in {"title", "desc", "locationName"} |->
                translate_text_existing(source[f], lang, f, env)]
        completed == [lang \in DOMAIN trans \cup {"en", "ar"} |->
                         IF lang \in {"en", "ar"} THEN entry(lang) ELSE trans[lang]]
    IN  [k \in DOMAIN event \cup {"translations"} |->
            IF k = "translations" THEN completed ELSE event[k]]

complete_translations(event, env) ==
    LET trans == Get(event, "translations", <<>>)
        zh == Get(trans, "zh", <<>>)
        from_zh == "zh" \in DOMAIN trans /\ Truthy(Get(zh, "title", <<>>))
        source ==
            [title |-> IF from_zh THEN zh["title"] ELSE Get(event, "title", <<>>),
             desc |-> IF from_zh THEN Get(zh, "desc", Get(event, "desc", <<>>))
                      ELSE Get(event, "desc", <<>>),
             locationName |->
                 IF from_zh THEN Get(zh, "locationName", Get(event, "locationName", <<>>))
                 ELSE Get(event, "locationName", <<>>)]
        entry(lang) ==
            LET old == Get(trans, lang, <<>>)
                result(f) == translate_text_existing(source[f], lang, f, env)
                filled == {f \in {"title", "desc", "locationName"} :
                              /\ ~Truthy(Get(old, f, <<>>))
                              /\ Truthy(source[f])
                              /\ Truthy(result(f))}
            IN  [f \in DOMAIN old \cup filled |->
                    IF f \in filled THEN result(f) ELSE old[f]]
        completed == [lang \in DOMAIN trans \cup {"en", "ar"} |->
                         IF lang \in {"en", "ar"} THEN entry(lang) ELSE trans[lang]]
    IN  [k \in DOMAIN event \cup {"translations"} |->
            IF k = "translations" THEN completed ELSE event[k]]

\* has_en and has_ar of lines 209-211
has_translation(event, lang) ==
    LET trans == Get(event, "translations", <<>>)
    IN  lang \in DOMAIN trans /\ Truthy(Get(trans[lang], "title", <<>>))

\* the events after the loop of lines 208-218
complete_all(events, env) ==
    [i \in DOMAIN events |->
        IF has_translation(events[i], "en") /\ has_translation(events[i], "ar")
        THEN events[i] ELSE complete_translations(events[i], env)]

-----------------------------------------------------------------------------
(* The calls of the translation backend a run makes, in order, with the    *)
(* time.sleep calls between them.                                          *)

\* TRANSLATE_DELAY of translate-existing-events.py, in seconds
TRANSLATE_DELAY == 1

\* translator.translate(text) is called for field in target_lang
BackendCall(target_lang, field, env) ==
    [op |-> "translate", lang |-> target_lang, field |-> field,
     outcome |-> env.backend[<<target_lang, field>>]]

\* time.sleep(TRANSLATE_DELAY)
Sleep == [op |-> "sleep", seconds |-> TRANSLATE_DELAY]

RECURSIVE Flatten(_)
\* the sequences of a sequence, one after the other
Flatten(seqs) == IF seqs = <<>> THEN <<>> ELSE Head(seqs) \o Flatten(Tail(seqs))

\* what translate_text of twitter-to-events.py does: the backend call, and
\* no sleep, whether the call succeeds or raises
translate_text_calls(target_lang, field, env) == <<BackendCall(target_lang, field, env)>>

\* what create_translated_content does: for every language but
\* original_lang, in the order of LANGUAGES, translate_text for the title,
\* the desc and, if there is one, the location name
create_translated_content_calls(title, desc, location_name, env) ==
    IF ~env.available THEN <<>>
    ELSE Flatten([n \in DOMAIN LANGUAGES |->
             IF LANGUAGES[n] = original_lang(title) THEN <<>>
             ELSE translate_text_calls(LANGUAGES[n], "title", env)
                  \o translate_text_calls(LANGUAGES[n], "desc", env)
                  \o (IF Truthy(location_name)
                      THEN translate_text_calls(LANGUAGES[n], "locationName", env)
                      ELSE <<>>)])

\* what parse_tweet_to_event does; a tweet on which it raises is given up
\* before create_translated_content
parse_tweet_to_event_calls(tweet, env) ==
    IF ParseRaises(tweet) THEN <<>>
    ELSE LET text == Get(tweet, "text", <<>>)
             location_name == extract_location_from_text(text)
         IN  create_translated_content_calls(
                 text, text,
                 IF Truthy(location_name) THEN location_name
                 ELSE <<Upper(detect_country(text))>>,
                 env)

\* what the loop of main of twitter-to-events.py, lines 840-847, does
ParseAllCalls(tweets, env) ==
    Flatten([i \in DOMAIN tweets |-> parse_tweet_to_event_calls(tweets[i], env)])

\* what translate_text of translate-existing-events.py does: the backend
\* call, and the sleep after it when the call has not raised
translate_text_existing_calls(target_lang, field, env) ==
    IF env.backend[<<target_lang, field>>] = "fail"
    THEN <<BackendCall(target_lang, field, env)>>
    ELSE <<BackendCall(target_lang, field, env), Sleep>>

\* what complete_translations(event) does: translate_text for every field
\* of en and ar that is empty and has a source
complete_translations_calls(event, env) ==
    LET trans == Get(event, "translations", <<>>)
        zh == Get(trans, "zh", <<>>)
        from_zh == "zh" \in DOMAIN trans /\ Truthy(Get(zh, "title", <<>>))
        source ==
            [title |-> IF from_zh THEN zh["title"] ELSE Get(event, "title", <<>>),
             desc |-> IF from_zh THEN Get(zh, "desc", Get(event, "desc", <<>>))
                      ELSE Get(event, "desc", <<>>),
             locationName |->
                 IF from_zh THEN Get(zh, "locationName", Get(event, "locationName", <<>>))
                 ELSE Get(event, "locationName", <<>>)]
        fields == <<"title", "desc", "locationName">>
        targets == <<"en", "ar">>
    IN  Flatten([n \in DOMAIN targets |->
            Flatten([m \in DOMAIN fields |->
                IF /\ ~Truthy(Get(Get(trans, targets[n], <<>>), fields[m], <<>>))
                   /\ Truthy(source[fields[m]])
                THEN translate_text_existing_calls(targets[n], fields[m], env)
                ELSE <<>>])])

\* what the loop of main of translate-existing-events.py, lines 208-218,
\* does
complete_all_calls(events, env) ==
    Flatten([i \in DOMAIN events |->
        IF has_translation(events[i], "en") /\ has_translation(events[i], "ar")
        THEN <<>> ELSE complete_translations_calls(events[i], env)])

-----------------------------------------------------------------------------
(* The values of the variables a specification does not use.               *)

NoEnv ==
    [available |-> FALSE,
     backend |-> [c \in {"zh", "en", "ar"} \X {"title", "desc", "locationName"} |-> "fail"],
     now |-> <<2>>, seed |-> 1]

MergeIdle ==
    /\ arg_existing = <<>>
    /\ arg_new = <<>>
    /\ arg_max = 0
    /\ ret_all = <<>>
    /\ ret_merged = <<>>
    /\ ret_again = <<>>
    /\ call = "unused"

ParseIdle ==
    /\ p_tweet = [json |-> "null"]
    /\ p_env = NoEnv
    /\ p_event = [id |-> None]
    /\ p_done = FALSE
    /\ p_event2 = [id |-> None]

NoBackup == [made |-> FALSE, events |-> <<>>]

NoFile == [exists |-> FALSE, events |-> <<>>, news |-> <<>>]

RunIdle ==
    /\ store = NoFile
    /\ backup = NoBackup
    /\ script = "none"
    /\ pc = "exited"
    /\ exit_code = 0
    /\ existing_events = <<>>
    /\ all_tweets = <<>>
    /\ new_events = <<>>
    /\ existing_news = <<>>
    /\ news_items = <<>>
    /\ pre_store = NoFile
    /\ wrote = FALSE

\* no function is called on its own
CallIdle ==
    /\ fn = "none"
    /\ args = [none |-> TRUE]
    /\ ret = [none |-> TRUE]
    /\ returned = FALSE

-----------------------------------------------------------------------------
(* The inputs of the merge_events calls.                                   *)

\* An event object with the fields merge_events reads; tw Missing or t
\* MissingTime leaves the field out.
MkEvent(id, tw, t) ==
    LET a == "id" :> id
        b == IF tw = Missing THEN a ELSE a @@ ("tweetId" :> tw)
    IN  IF t = MissingTime THEN b ELSE b @@ ("time" :> t)

\* (id, tweetId): tweetId equal to id, absent, and different from id
IdentityShapes ==
    {<<"100", "100">>, <<"200", "200">>, <<"100", Missing>>, <<"200", "100">>}

MergeEventSet ==
    {MkEvent(s[1], s[2], t) : s \in IdentityShapes, t \in {MissingTime, <<1, 2>>, <<2>>}}

\* the max_events values tried
MergeCaps == 0..3

InitMerge ==
    /\ arg_existing \in SeqsUpTo(MergeEventSet, MaxMergeLen)
    /\ arg_new \in SeqsUpTo(MergeEventSet, MaxMergeLen - Len(arg_existing))
    /\ arg_max \in MergeCaps
    /\ ret_all = <<>>
    /\ ret_merged = <<>>
    /\ ret_again = <<>>
    /\ call = "none"
    /\ ParseIdle
    /\ RunIdle
    /\ CallIdle

\* merged = merge_events(existing, new, max_events)
Merge ==
    /\ call = "none"
    /\ ret_all' = all_events(arg_existing, arg_new)
    /\ ret_merged' = merge_events(arg_existing, arg_new, arg_max)
    /\ call' = "merged"
    /\ UNCHANGED <<arg_existing, arg_new, arg_max, ret_again>>
    /\ UNCHANGED <<parseVars, runVars, callVars>>

\* merge_events(merged, new, max_events): the same batch merged again
MergeAgain ==
    /\ call = "merged"
    /\ ret_again' = merge_events(ret_merged, arg_new, arg_max)
    /\ call' = "remerged"
    /\ UNCHANGED <<arg_existing, arg_new, arg_max, ret_all, ret_merged>>
    /\ UNCHANGED <<parseVars, runVars, callVars>>

NextMerge == Merge \/ MergeAgain

SpecMerge == InitMerge /\ [][NextMerge]_vars

-----------------------------------------------------------------------------
(* The inputs of the parse_tweet_to_event calls.                           *)

Fields == {"title", "desc", "locationName"}

\* the texts tried: English, Chinese with a known place, Arabic, and Arabic
\* with Chinese
ParseTexts ==
    {<<"strike", "israel">>, <<"strike", "tehran_zh">>, <<"ghara_ar">>,
     <<"ghara_ar", "tehran_zh">>}

\* a tweet object; id Missing or created_at MissingTime leaves the field out
MkTweet(id, text, created_at) ==
    LET a == [json |-> "object", text |-> text,
              author |-> [json |-> "object", username |-> "idf"]]
        b == IF id = Missing THEN a ELSE a @@ ("id" :> id)
    IN  IF created_at = MissingTime THEN b ELSE b @@ ("createdAt" :> created_at)

ParseTweets ==
    {MkTweet(id, text, c) : id \in {"100", Missing}, text \in ParseTexts,
                            c \in {<<1, 2>>, MissingTime}}

\* which calls of the backend fail: every subset of the per-field calls
Backends == [{"zh", "en", "ar"} \X Fields -> {"ok", "fail"}]

BackendDown == [c \in {"zh", "en", "ar"} \X Fields |-> "fail"]

BackendUp == [c \in {"zh", "en", "ar"} \X Fields |-> "ok"]

\* deep-translator installed, with any pattern of failing calls, or not
\* installed
ParseEnvs ==
    {[available |-> TRUE, backend |-> b, now |-> <<2>>, seed |-> 1] : b \in Backends}
    \cup {[available |-> FALSE, backend |-> BackendDown, now |-> <<2>>, seed |-> 1]}

InitParse ==
    /\ p_tweet \in ParseTweets
    /\ p_env \in ParseEnvs
    /\ p_event = [id |-> None]
    /\ p_done = FALSE
    /\ p_event2 = [id |-> None]
    /\ MergeIdle
    /\ RunIdle
    /\ CallIdle

\* event = parse_tweet_to_event(tweet, config)
Parse ==
    /\ ~p_done
    /\ ~ParseRaises(p_tweet)
    /\ p_event' = parse_tweet_to_event(p_tweet, p_env)
    /\ p_done' = TRUE
    /\ UNCHANGED <<p_tweet, p_env, p_event2>>
    /\ UNCHANGED <<mergeVars, runVars, callVars>>

\* the hash seeds of two processes: Python draws one when a process starts
HashSeeds == {1, 2}

\* parse_tweet_to_event(tweet, config) on the same tweet in a later run of
\* the script, which is another process
ParseAgain ==
    /\ p_done
    /\ p_event2["id"] = None
    /\ \E seed \in HashSeeds :
           p_event2' = parse_tweet_to_event(p_tweet, [p_env EXCEPT !.seed = seed])
    /\ UNCHANGED <<p_tweet, p_env, p_event, p_done>>
    /\ UNCHANGED <<mergeVars, runVars, callVars>>

NextParse == Parse \/ ParseAgain

SpecParse == InitParse /\ [][NextParse]_vars

-----------------------------------------------------------------------------
(* The runs of the three scripts against one Store file, one at a time.    *)

\* a raw item that is no JSON object
NotObject == [json |-> "string"]

\* {"text": "", "author": "x"}: an object without id whose author is a string
BadAuthor == [json |-> "object", text |-> <<>>, author |-> [json |-> "string"]]

\* what a search may return
RawItems ==
    {MkTweet(id, <<"strike", "israel">>, c) : id \in Ids, c \in {<<1, 2>>, <<2>>}}
    \cup {NotObject, BadAuthor}

\* the backend answers every call of a run, or none
RunEnvs ==
    {[available |-> TRUE, backend |-> b, now |-> <<2>>, seed |-> 1] :
        b \in {BackendUp, BackendDown}}

\* an event written by hand: id, no tweetId, no translations
SeedEvent ==
    [id |-> "100", type |-> "strike", country |-> "israel",
     title |-> <<"strike", "israel">>, desc |-> <<"strike", "israel">>,
     location |-> <<3200, 3500>>, locationName |-> <<"ISRAEL">>,
     time |-> <<1, 2>>, source |-> "@idf", isNew |-> FALSE]

\* a news item an earlier run has stored
SeedNews ==
    [id |-> "n1", title |-> <<"israel", "a", "b", "c", "d">>,
     text |-> <<"israel", "a", "b", "c", "d">>, category |-> "general",
     source |-> "@Unknown", time |-> <<1, 2>>, url |-> ""]

\* {"id": "n4", "text": "iran strike", "author": "x"}: a relevant news item
\* whose author is a string
BadAuthorNews ==
    [json |-> "object", id |-> "n4", text |-> <<"iran", "strike">>,
     author |-> [json |-> "string"]]

\* what the news search may return: an item with the id of the stored one
\* and another text, an item with another id and the stored text in
\* capitals, an item without any keyword, an item whose author is a string
\* and an item that is not an object
RunRawNews ==
    {[json |-> "object", id |-> "n1", text |-> <<"iran", "talks">>],
     [json |-> "object", id |-> "n2", text |-> <<"ISRAEL", "a", "b", "c", "d">>],
     [json |-> "object", id |-> "n3", text |-> <<"weather">>],
     BadAuthorNews, NotObject}

Init ==
    /\ store \in {NoFile,
                  [exists |-> TRUE, events |-> <<SeedEvent>>, news |-> <<SeedNews>>]}
    /\ backup = NoBackup
    /\ script = "none"
    /\ pc = "exited"
    /\ exit_code = 0
    /\ existing_events = <<>>
    /\ all_tweets = <<>>
    /\ new_events = <<>>
    /\ existing_news = <<>>
    /\ news_items = <<>>
    /\ pre_store = store
    /\ wrote = FALSE
    /\ MergeIdle
    /\ ParseIdle
    /\ CallIdle

\* a script starts: nothing of the run before it is left
StartRun(name, first) ==
    /\ pc = "exited"
    /\ script' = name
    /\ pc' = first
    /\ exit_code' = -1
    /\ backup' = NoBackup
    /\ existing_events' = <<>>
    /\ all_tweets' = <<>>
    /\ new_events' = <<>>
    /\ existing_news' = <<>>
    /\ news_items' = <<>>
    /\ pre_store' = store
    /\ wrote' = FALSE
    /\ UNCHANGED store

\* the script ends with the status
ExitRun(status) ==
    /\ pc' = "exited"
    /\ exit_code' = status

\* twitter-to-events.py starts
T_Start ==
    /\ StartRun("twitter", "t_load")
    /\ UNCHANGED <<mergeVars, parseVars, callVars>>

\* main, lines 791-795: the Store is loaded, a missing file as an empty one
T_Load ==
    /\ pc = "t_load"
    /\ existing_events' = load_events(store)
    /\ existing_news' = load_news(store)
    /\ pc' = "t_fetch"
    /\ UNCHANGED <<store, backup, script, exit_code, all_tweets, new_events,
                   news_items, pre_store, wrote>>
    /\ UNCHANGED <<mergeVars, parseVars, callVars>>

\* main, lines 799-837: the searches and the news; without any tweet the
\* run ends
T_Fetch ==
    /\ pc = "t_fetch"
    /\ \E batch \in SeqsUpTo(RawItems, MaxBatch) :
           /\ all_tweets' = batch
           /\ IF batch = <<>>
              THEN ExitRun(0)
              ELSE pc' = "t_parse" /\ UNCHANGED exit_code
    /\ \E raw_news \in SeqsUpTo(RunRawNews, MaxNewsBatch) :
           /\ ~NewsRaises(raw_news, existing_news)
           /\ news_items' = news_items_of(raw_news, existing_news, NoEnv)
    /\ UNCHANGED <<store, backup, script, existing_events, new_events, existing_news,
                   pre_store, wrote>>
    /\ UNCHANGED <<mergeVars, parseVars, callVars>>

\* main, lines 799-831: the searches and the news; line 823 or line 831
\* raises on a news item and the run dies
T_NewsRaises ==
    /\ pc = "t_fetch"
    /\ \E batch \in SeqsUpTo(RawItems, MaxBatch) : all_tweets' = batch
    /\ \E raw_news \in SeqsUpTo(RunRawNews, MaxNewsBatch) :
           NewsRaises(raw_news, existing_news)
    /\ ExitRun(1)
    /\ UNCHANGED <<store, backup, script, existing_events, new_events, existing_news,
                   news_items, pre_store, wrote>>
    /\ UNCHANGED <<mergeVars, parseVars, callVars>>

\* main, lines 839-849: the tweets are converted
T_Parse ==
    /\ pc = "t_parse"
    /\ \E env \in RunEnvs : new_events' = ParseAll(all_tweets, env)
    /\ pc' = "t_merge"
    /\ UNCHANGED <<store, backup, script, exit_code, existing_events, all_tweets,
                   existing_news, news_items, pre_store, wrote>>
    /\ UNCHANGED <<mergeVars, parseVars, callVars>>

\* main, lines 851-877: merge, ticker, templates and save_json_file
T_Save ==
    /\ pc = "t_merge"
    /\ ~TickerRaises(all_tweets)
    /\ store' = [exists |-> TRUE,
                 events |-> merge_events(existing_events, new_events, DEFAULT_MAX_EVENTS),
                 news |-> merged_news(existing_news, news_items)]
    /\ wrote' = TRUE
    /\ ExitRun(0)
    /\ UNCHANGED <<backup, script, existing_events, all_tweets, new_events,
                   existing_news, news_items, pre_store>>
    /\ UNCHANGED <<mergeVars, parseVars, callVars>>

\* main, line 857: create_ticker_texts raises and the run dies
T_TickerRaises ==
    /\ pc = "t_merge"
    /\ TickerRaises(all_tweets)
    /\ ExitRun(1)
    /\ UNCHANGED <<store, backup, script, existing_events, all_tweets, new_events,
                   existing_news, news_items, pre_store, wrote>>
    /\ UNCHANGED <<mergeVars, parseVars, callVars>>

\* safe-update.py starts
S_Start ==
    /\ StartRun("safe", "s_backup")
    /\ UNCHANGED <<mergeVars, parseVars, callVars>>

\* create_backup, line 63: shutil.copy2 raises FileNotFoundError without
\* the Store file, and the run dies
S_Backup ==
    /\ pc = "s_backup"
    /\ IF store.exists
       THEN /\ backup' = [made |-> TRUE, events |-> store.events]
            /\ pc' = "s_load"
            /\ UNCHANGED exit_code
       ELSE /\ ExitRun(1)
            /\ UNCHANGED backup
    /\ UNCHANGED <<store, script, existing_events, all_tweets, new_events,
                   existing_news, news_items, pre_store, wrote>>
    /\ UNCHANGED <<mergeVars, parseVars, callVars>>

\* main, lines 65-74
S_Load ==
    /\ pc = "s_load"
    /\ existing_events' = store.events
    /\ pc' = "s_search"
    /\ UNCHANGED <<store, backup, script, exit_code, all_tweets, new_events,
                   existing_news, news_items, pre_store, wrote>>
    /\ UNCHANGED <<mergeVars, parseVars, callVars>>

\* main, lines 76-113: the searches and the new events
S_Search ==
    /\ pc = "s_search"
    /\ \E batch \in SeqsUpTo(RawItems, MaxBatch) :
           LET r == SafeLoop(batch, safe_existing_tweet_ids(existing_events), <<>>, <<2>>)
           IN  /\ Len(existing_events) + Len(batch) <= MaxStoreLen
               /\ all_tweets' = batch
               /\ new_events' = r.new
               /\ IF r.raised
                  THEN ExitRun(1)
                  ELSE pc' = "s_save" /\ UNCHANGED exit_code
    /\ UNCHANGED <<store, backup, script, existing_events, existing_news, news_items,
                   pre_store, wrote>>
    /\ UNCHANGED <<mergeVars, parseVars, callVars>>

\* main, lines 115-139: new events first, the count check, the write
S_Save ==
    /\ pc = "s_save"
    /\ LET merged == new_events \o existing_events
       IN  IF Len(merged) < Len(existing_events)
           THEN /\ ExitRun(1)
                /\ UNCHANGED <<store, wrote>>
           ELSE /\ store' = [store EXCEPT !.events = merged]
                /\ wrote' = TRUE
                /\ ExitRun(0)
    /\ UNCHANGED <<backup, script, existing_events, all_tweets, new_events,
                   existing_news, news_items, pre_store>>
    /\ UNCHANGED <<mergeVars, parseVars, callVars>>

\* translate-existing-events.py starts
X_Start ==
    /\ StartRun("translate", "x_load")
    /\ UNCHANGED <<mergeVars, parseVars, callVars>>

\* main, lines 141-151
X_Load ==
    /\ pc = "x_load"
    /\ IF store.exists
       THEN /\ existing_events' = store.events
            /\ pc' = "x_backup"
            /\ UNCHANGED exit_code
       ELSE /\ ExitRun(1)
            /\ UNCHANGED existing_events
    /\ UNCHANGED <<store, backup, script, all_tweets, new_events, existing_news,
                   news_items, pre_store, wrote>>
    /\ UNCHANGED <<mergeVars, parseVars, callVars>>

\* main, lines 154-157
X_Backup ==
    /\ pc = "x_backup"
    /\ backup' = [made |-> TRUE, events |-> existing_events]
    /\ pc' = "x_confirm"
    /\ UNCHANGED <<store, script, exit_code, existing_events, all_tweets, new_events,
                   existing_news, news_items, pre_store, wrote>>
    /\ UNCHANGED <<mergeVars, parseVars, callVars>>

\* main, lines 160-198: nothing to translate, or the answer to the prompt
X_Confirm ==
    /\ pc = "x_confirm"
    /\ \E response \in {"y", "n"} :
           IF \/ \A i \in DOMAIN existing_events :
                    /\ has_translation(existing_events[i], "en")
                    /\ has_translation(existing_events[i], "ar")
              \/ response # "y"
           THEN ExitRun(0)
           ELSE pc' = "x_translate" /\ UNCHANGED exit_code
    /\ UNCHANGED <<store, backup, script, existing_events, all_tweets, new_events,
                   existing_news, news_items, pre_store, wrote>>
    /\ UNCHANGED <<mergeVars, parseVars, callVars>>

\* main, lines 204-248: the events are completed and the file is written
X_TranslateSave ==
    /\ pc = "x_translate"
    /\ \E env \in RunEnvs :
           store' = [store EXCEPT !.events = complete_all(existing_events, env)]
    /\ wrote' = TRUE
    /\ ExitRun(0)
    /\ UNCHANGED <<backup, script, existing_events, all_tweets, new_events,
                   existing_news, news_items, pre_store>>
    /\ UNCHANGED <<mergeVars, parseVars, callVars>>

Next ==
    \/ T_Start \/ T_Load \/ T_Fetch \/ T_NewsRaises \/ T_Parse \/ T_Save \/ T_TickerRaises
    \/ S_Start \/ S_Backup \/ S_Load \/ S_Search \/ S_Save
    \/ X_Start \/ X_Load \/ X_Backup \/ X_Confirm \/ X_TranslateSave

Spec == Init /\ [][Next]_vars

-----------------------------------------------------------------------------
(* Properties of the runs, under Spec.                                     *)

\* the ids of the events are pairwise distinct
DistinctIds(events) ==
    \A i, j \in DOMAIN events : i # j => events[i]["id"] # events[j]["id"]

\* C1: a run of twitter-to-events or safe-update that writes the Store
\* writes at least as many events as the Store held before the run (a run
\* that would write fewer writes nothing).
C1_NoShrink ==
    (script \in {"twitter", "safe"} /\ wrote) =>
        Len(store.events) >= Len(pre_store.events)

\* C3: after a run that writes a Store whose event ids were pairwise
\* distinct, no two events of the Store have the same id.
C3_UniqueIds ==
    (script \in {"twitter", "safe"} /\ wrote /\ DistinctIds(pre_store.events)) =>
        DistinctIds(store.events)

\* C7: a run that overwrites an existing Store file has written a copy of
\* the pre-run Store to a backup before.
C7_BackupBeforeOverwrite ==
    (wrote /\ pre_store.exists) =>
        (backup.made /\ backup.events = pre_store.events)

\* C8: a run of twitter-to-events or safe-update that finds no Store file
\* and fetches only well-formed messages does not fail, and if it fetched
\* messages it has written a Store whose events are those of the messages.
C8_MissingStoreIsEmpty ==
    ( /\ script \in {"twitter", "safe"}
      /\ pc = "exited"
      /\ ~pre_store.exists
      /\ \A i \in DOMAIN all_tweets : all_tweets[i] \notin {NotObject, BadAuthor} )
    => /\ exit_code = 0
       /\ all_tweets # <<>> =>
              /\ wrote
              /\ store.exists
              /\ {store.events[i]["id"] : i \in DOMAIN store.events}
                     = {all_tweets[i]["id"] : i \in DOMAIN all_tweets}

\* C9: a run of twitter-to-events that fetched a message that can be
\* normalized ends well and has written the Store with the events of the
\* messages that can be normalized merged in, whatever the other messages.
C9_MalformedSkipped ==
    (script = "twitter" /\ pc = "exited" /\ new_events # <<>>) =>
        /\ exit_code = 0
        /\ wrote
        /\ store.events = merge_events(existing_events, new_events, DEFAULT_MAX_EVENTS)

\* the ids of the news items are pairwise distinct
DistinctNewsIds(news) ==
    \A i, j \in DOMAIN news : i # j => news[i]["id"] # news[j]["id"]

\* C12: after a run of twitter-to-events that writes a Store whose news ids
\* were pairwise distinct, no two news items of the Store have the same id.
C12_UniqueNewsIds ==
    (script = "twitter" /\ wrote /\ new_events # <<>> /\ DistinctNewsIds(pre_store.news)) =>
        DistinctNewsIds(store.news)

-----------------------------------------------------------------------------
(* Properties of merge_events, under SpecMerge.                            *)

\* C2: for every maxEvents >= 0, len(merge_events(existing, new, maxEvents))
\* is at least min(len(existing), maxEvents).
C2_MergeLowerBound ==
    (call # "none" /\ arg_max >= 0) =>
        Len(ret_merged) >= Min(Len(arg_existing), arg_max)

\* C2 witness: a merge of a non-empty batch whose cap is positive and
\* smaller than the number of existing events.
C2_Witness ==
    /\ call = "merged"
    /\ arg_max >= 1
    /\ arg_new # <<>>
    /\ Len(arg_existing) > arg_max
    /\ Len(ret_merged) = arg_max

\* C4: before the cut, a new event is kept if and only if its identity key
\* (tweetId if present, otherwise id) is the key of no existing event, and
\* every existing event is kept as it is; with one existing event, a new
\* event of the same key and a later new event of another key, the result
\* is the later new event followed by the existing one.
C4_KeptIffNewKey ==
    call # "none" =>
        LET key(e) == IF "tweetId" \in DOMAIN e THEN e["tweetId"] ELSE e["id"]
            fresh(e) == \A i \in DOMAIN arg_existing : key(arg_existing[i]) # key(e)
            count(e, s) == Cardinality({i \in DOMAIN s : s[i] = e})
        IN  /\ \A e \in MergeEventSet :
                   count(e, ret_all) =
                       count(e, arg_existing) + (IF fresh(e) THEN count(e, arg_new) ELSE 0)
            /\ Len(ret_all) =
                   Len(arg_existing) + Cardinality({i \in DOMAIN arg_new : fresh(arg_new[i])})
            /\ ( /\ Len(arg_existing) = 1
                 /\ Len(arg_new) = 2
                 /\ key(arg_new[1]) = key(arg_existing[1])
                 /\ key(arg_new[2]) # key(arg_existing[1])
                 /\ StrLess(TimeKey(arg_existing[1]), TimeKey(arg_new[2]))
                 /\ arg_max >= 2 )
               => ret_merged = <<arg_new[2], arg_existing[1]>>

\* C4 witness: the example of the specification: existing tweetId 100 at the
\* earlier time, new tweetId 100 and tweetId 200 at the later time, merged to
\* [200, 100].
C4_Witness ==
    /\ call = "merged"
    /\ arg_existing = <<MkEvent("100", "100", <<1, 2>>)>>
    /\ arg_new = <<MkEvent("100", "100", MissingTime), MkEvent("200", "200", <<2>>)>>
    /\ ret_all = <<MkEvent("200", "200", <<2>>), MkEvent("100", "100", <<1, 2>>)>>
    /\ ret_merged = ret_all

\* C5: merging the same new batch a second time gives the list the first
\* merge gave; with an empty batch the result is existing, stably sorted by
\* time descending and cut to maxEvents.
C5_MergeIdempotent ==
    /\ (call # "none" /\ arg_new = <<>>) =>
           ret_merged = PySliceTo(SortByTimeDesc(arg_existing), arg_max)
    /\ call = "remerged" => ret_again = ret_merged

\* C6: in every output of merge_events no event is followed by an event of a
\* greater time, a missing time counting as the empty string.
C6_SortedDesc ==
    call # "none" =>
        \A i \in 1..(Len(ret_merged) - 1) :
            ~StrLess(Get(ret_merged[i], "time", <<>>), Get(ret_merged[i + 1], "time", <<>>))

\* C6 witness: two existing events in ascending order of time, the first
\* without a time, come out in descending order.
C6_Witness ==
    /\ call = "merged"
    /\ Len(arg_existing) = 2
    /\ "time" \notin DOMAIN arg_existing[1]
    /\ "time" \in DOMAIN arg_existing[2]
    /\ Len(ret_merged) >= 2
    /\ ret_merged[1] = arg_existing[2]
    /\ ret_merged[2] = arg_existing[1]


-----------------------------------------------------------------------------
(* Properties of parse_tweet_to_event, under SpecParse.                    *)

\* C10: whatever calls of the translation backend fail, the event returned
\* has zh, en and ar translations, each with title, desc and locationName,
\* and every field whose translation failed holds the original-language
\* value of that field.
C10_TranslationFallback ==
    p_done =>
        LET text == p_tweet["text"]
            place == extract_location_from_text(text)
            original == [title |-> text, desc |-> text,
                         locationName |-> IF place # NoneText THEN place
                                          ELSE <<Upper(detect_country(text))>>]
            failed(lang, f) == ~p_env.available \/ p_env.backend[<<lang, f>>] = "fail"
        IN  /\ DOMAIN p_event.translations = {"zh", "en", "ar"}
            /\ \A lang \in {"zh", "en", "ar"} :
                   /\ DOMAIN p_event.translations[lang] = Fields
                   /\ \A f \in Fields :
                          /\ p_event.translations[lang][f] # NoneText
                          /\ failed(lang, f) => p_event.translations[lang][f] = original[f]

\* C10 witness: an English tweet parsed while the backend fails for the
\* English-to-Arabic title and every Chinese call and succeeds for the
\* Arabic desc: the failed fields hold the original text, the other one a
\* translation.
C10_Witness ==
    /\ p_done
    /\ p_env.available
    /\ p_tweet["text"] = <<"strike", "israel">>
    /\ p_env.backend[<<"ar", "title">>] = "fail"
    /\ p_env.backend[<<"ar", "desc">>] = "ok"
    /\ \A f \in Fields : p_env.backend[<<"zh", f>>] = "fail"
    /\ p_event.translations["ar"].title = <<"strike", "israel">>
    /\ p_event.translations["ar"].desc = <<"ar:", "strike", "israel">>
    /\ p_event.translations["zh"].locationName = <<"ISRAEL">>

\* C16: a message without an explicit id gets the same id in two process
\* runs, and merging the event of the second run into a Store that holds
\* the event of the first adds no second event.
C16_StableDerivedId ==
    (p_event2["id"] # None /\ "id" \notin DOMAIN p_tweet) =>
        /\ p_event2["id"] = p_event["id"]
        /\ Len(merge_events(<<p_event>>, <<p_event2>>, DEFAULT_MAX_EVENTS)) = 1

\* C17: with the backend answering every call, the language the title is
\* classified as (Arabic when it has a character of the Arabic range, else
\* Chinese when it has a non-ASCII character, else English) is the one
\* language whose translation is the original text; the other two are
\* translated.
C17_ArabicFirst ==
    (p_done /\ p_env.available /\ p_env.backend = BackendUp) =>
        LET title == p_tweet["text"]
            classified ==
                IF \E i \in DOMAIN title : Script(title[i]) = "arabic" THEN "ar"
                ELSE IF \E i \in DOMAIN title : Script(title[i]) # "ascii" THEN "zh"
                ELSE "en"
        IN  \A lang \in {"zh", "en", "ar"} :
                p_event["translations"][lang].title =
                    IF lang = classified THEN title ELSE BackendTranslate(title, lang)

-----------------------------------------------------------------------------
(* The functions called on their own, one call in a behaviour.             *)

\* a raw news item; id Missing leaves the id out, and the text is in
\* "text", or in "title" under an empty "text"
MkNews(id, text, in_title) ==
    LET a == IF in_title THEN [json |-> "object", text |-> <<>>, title |-> text]
             ELSE [json |-> "object", text |-> text]
    IN  IF id = Missing THEN a ELSE a @@ ("id" :> id)

\* the texts of the news tried: two that differ in case only, one that
\* differs from them after the first fifty characters, one with another
\* keyword, and one without any keyword
NewsTexts ==
    {<<"israel", "a", "b", "c", "d">>, <<"ISRAEL", "a", "b", "c", "d">>,
     <<"israel", "a", "b", "c", "d", "e">>, <<"iran", "talks">>, <<"weather">>}

RawNewsSet ==
    {MkNews("n1", text, FALSE) : text \in NewsTexts}
    \cup {MkNews(Missing, <<"iran", "talks">>, TRUE)}

\* the news of a Store are items normalized by earlier runs
StoredNewsSet == {normalize_news_item(r, NoEnv) : r \in RawNewsSet}

InitDeduplicateNews ==
    /\ fn = "deduplicate_news"
    /\ args \in {[news_items |-> n, existing_news |-> e] :
                    n \in SeqsUpTo(RawNewsSet, MaxNews),
                    e \in SeqsUpTo(StoredNewsSet, MaxNews)}

\* unique_news = deduplicate_news(news_items, existing_news), and the
\* merged_news main makes of the relevant items among news_items
DeduplicateNews ==
    /\ fn = "deduplicate_news"
    /\ ~returned
    /\ ret' = [unique_news |-> deduplicate_news(args.news_items, args.existing_news),
               merged_news |->
                   merged_news(args.existing_news,
                               news_items_of(args.news_items, args.existing_news, NoEnv))]
    /\ returned' = TRUE
    /\ UNCHANGED <<fn, args>>
    /\ UNCHANGED <<mergeVars, parseVars, runVars>>

\* the texts classified: words of the five types, one of them in
\* capitals, and a word of no type
ClassifyTokens ==
    {"strike", "STRIKE", "blockade", "airspace", "radar", "warn", "weather"}

InitClassifyEventType ==
    /\ fn = "classify_event_type"
    /\ args \in {[text |-> t] : t \in SeqsUpTo(ClassifyTokens, MaxTextLen)}

\* classify_event_type(text), called twice
ClassifyEventType ==
    /\ fn = "classify_event_type"
    /\ ~returned
    /\ ret' = [type |-> classify_event_type(args.text),
               again |-> classify_event_type(args.text)]
    /\ returned' = TRUE
    /\ UNCHANGED <<fn, args>>
    /\ UNCHANGED <<mergeVars, parseVars, runVars>>

\* location_name: None, "", a name of the table, another name; country:
\* None, the countries of the table, another country
InitGetCoordinates ==
    /\ fn = "get_coordinates"
    /\ args \in {[location_name |-> l, country |-> c] :
                    l \in {NoneText, <<>>, <<"tehran_zh">>, <<"nowhere">>},
                    c \in {None, "israel", "iran", "usa", "nowhere"}}

\* get_coordinates(location_name, country)
GetCoordinates ==
    /\ fn = "get_coordinates"
    /\ ~returned
    /\ ret' = [coordinates |-> get_coordinates(args.location_name, args.country)]
    /\ returned' = TRUE
    /\ UNCHANGED <<fn, args>>
    /\ UNCHANGED <<mergeVars, parseVars, runVars>>

\* a stored event without translations
BareEvent(id) ==
    [id |-> id, tweetId |-> id, type |-> "strike", country |-> "israel",
     location |-> <<3200, 3500>>, time |-> <<1, 2>>,
     title |-> <<"title">>, desc |-> <<"desc">>, locationName |-> <<"place">>,
     source |-> "@idf", url |-> "https://twitter.com/idf/status/" \o id,
     isNew |-> FALSE]

\* a stored event with the translations given
StoredEvent(id, translations) == BareEvent(id) @@ ("translations" :> translations)

ZhEntry == [title |-> <<"title_zh">>, desc |-> <<"desc_zh">>, locationName |-> <<"place_zh">>]

\* the translations of the events tried: zh alone; zh with an empty title;
\* en with a title, an empty desc and no locationName; en complete and ar
\* with a null title; en and ar with titles only; all complete
TranslationShapes ==
    { [zh |-> ZhEntry],
      [zh |-> [title |-> <<>>, desc |-> <<"desc_zh">>]],
      [zh |-> ZhEntry, en |-> [title |-> <<"old_en">>, desc |-> <<>>]],
      [zh |-> ZhEntry,
       en |-> [title |-> <<"old_en">>, desc |-> <<"old_en">>, locationName |-> <<"old_en">>],
       ar |-> [title |-> NoneText, desc |-> <<"old_ar">>]],
      [zh |-> ZhEntry, en |-> [title |-> <<"old_en">>], ar |-> [title |-> <<"old_ar">>]],
      [zh |-> ZhEntry,
       en |-> [title |-> <<"old_en">>, desc |-> <<"old_en">>, locationName |-> <<"old_en">>],
       ar |-> [title |-> <<"old_ar">>, desc |-> <<"old_ar">>, locationName |-> <<"old_ar">>]] }

StoredEvents ==
    {BareEvent(id) : id \in Ids}
    \cup {StoredEvent(id, t) : id \in Ids, t \in TranslationShapes}

\* the backend answers every call, none, the calls for en only, or the
\* calls for titles only
CompleteEnvs ==
    {[available |-> TRUE, backend |-> b, now |-> <<2>>, seed |-> 1] :
        b \in {BackendUp, BackendDown,
               [c \in {"zh", "en", "ar"} \X Fields |-> IF c[1] = "en" THEN "ok" ELSE "fail"],
               [c \in {"zh", "en", "ar"} \X Fields |->
                   IF c[2] = "title" THEN "ok" ELSE "fail"]}}

InitCompleteAll ==
    /\ fn = "complete_all"
    /\ args \in {[events |-> e, env |-> v] :
                    e \in SeqsUpTo(StoredEvents, MaxEvents), v \in CompleteEnvs}

\* main of translate-existing-events.py, lines 208-218: the loop over the
\* events that calls complete_translations
CompleteAll ==
    /\ fn = "complete_all"
    /\ ~returned
    /\ ret' = [events |-> complete_all(args.events, args.env)]
    /\ returned' = TRUE
    /\ UNCHANGED <<fn, args>>
    /\ UNCHANGED <<mergeVars, parseVars, runVars>>

\* the abbreviations of %a and %b, as their characters
Weekdays ==
    {<<"M", "o", "n">>, <<"T", "u", "e">>, <<"W", "e", "d">>, <<"T", "h", "u">>,
     <<"F", "r", "i">>, <<"S", "a", "t">>, <<"S", "u", "n">>}

Months ==
    {<<"J", "a", "n">>, <<"F", "e", "b">>, <<"M", "a", "r">>, <<"A", "p", "r">>,
     <<"M", "a", "y">>, <<"J", "u", "n">>, <<"J", "u", "l">>, <<"A", "u", "g">>,
     <<"S", "e", "p">>, <<"O", "c", "t">>, <<"N", "o", "v">>, <<"D", "e", "c">>}

\* the raw timestamps tried, of an instant that is not now
RawTimestamps ==
    {[form |-> "legacy", wday |-> w, month |-> m, instant |-> <<1, 2>>] :
        w \in Weekdays, m \in Months}
    \cup {[form |-> "iso", instant |-> <<1, 2>>]}
    \cup {[form |-> f] : f \in {"garbage", "empty", "number"}}

InitParseTimestamp ==
    /\ fn = "parse_timestamp"
    /\ args \in {[created_at |-> c, now |-> <<2>>] : c \in RawTimestamps}

\* the time parse_tweet_to_event and normalize_news_item give an item
\* whose createdAt is created_at
ParseTimestamp ==
    /\ fn = "parse_timestamp"
    /\ ~returned
    /\ ret' = [event_time |-> parse_timestamp(args.created_at, args.now),
               news_time |-> parse_timestamp(args.created_at, args.now)]
    /\ returned' = TRUE
    /\ UNCHANGED <<fn, args>>
    /\ UNCHANGED <<mergeVars, parseVars, runVars>>

\* the texts of the ticker inputs: with a keyword, with a keyword in
\* capitals, without any keyword, and a URL alone
TickerTexts ==
    {<<"israel", "strike">>, <<"ISRAEL", "strike">>, <<"weather", "report">>, <<"url">>}

TickerNews == {[json |-> "object", id |-> "n1", text |-> t] : t \in TickerTexts}

TickerTweets == {MkTweet("100", t, <<1, 2>>) : t \in TickerTexts}

InitCreateTickerTexts ==
    /\ fn = "create_ticker_texts"
    /\ args \in {[news_items |-> n, tweets |-> t] :
                    n \in SeqsUpTo(TickerNews, MaxNews),
                    t \in SeqsUpTo(TickerTweets, MaxBatch)}

\* create_ticker_texts(news_items, tweets)
CreateTickerTexts ==
    /\ fn = "create_ticker_texts"
    /\ ~returned
    /\ ret' = [ticker_texts |-> create_ticker_texts(args.news_items, args.tweets)]
    /\ returned' = TRUE
    /\ UNCHANGED <<fn, args>>
    /\ UNCHANGED <<mergeVars, parseVars, runVars>>

\* events of two types in two countries: without translations, with all
\* translations, and with an en translation that has a title only
TemplateEvents ==
    {[BareEvent("100") EXCEPT !.type = t, !.country = c] :
        t \in {"strike", "intel"}, c \in {"israel", "iran"}}
    \cup {[StoredEvent("200", tr) EXCEPT !.country = c] :
             c \in {"israel", "iran"},
             tr \in {[zh |-> ZhEntry,
                      en |-> [title |-> <<"old_en">>, desc |-> <<"old_en">>,
                              locationName |-> <<"old_en">>],
                      ar |-> [title |-> <<"old_ar">>, desc |-> <<"old_ar">>,
                              locationName |-> <<"old_ar">>]],
                     [zh |-> ZhEntry, en |-> [title |-> <<"old_en">>]]}}

\* lists of events with more events than the limit
InitCreateTemplates ==
    /\ fn = "create_templates"
    /\ args \in {[events |-> e] : e \in SeqsUpTo(TemplateEvents, MaxEvents + 1)}

\* create_templates(events)
CreateTemplates ==
    /\ fn = "create_templates"
    /\ ~returned
    /\ ret' = [templates |-> create_templates(args.events)]
    /\ returned' = TRUE
    /\ UNCHANGED <<fn, args>>
    /\ UNCHANGED <<mergeVars, parseVars, runVars>>

\* the tweets of one run of twitter-to-events.py and the backend
InitParseAllCalls ==
    /\ fn = "parse_all_calls"
    /\ args \in {[tweets |-> t, env |-> v] :
                    t \in SeqsUpTo(ParseTweets, MaxBatch), v \in CompleteEnvs}

\* the backend calls and sleeps of the conversion loop of one run of
\* twitter-to-events.py
ParseAllBackendCalls ==
    /\ fn = "parse_all_calls"
    /\ ~returned
    /\ ret' = [log |-> ParseAllCalls(args.tweets, args.env)]
    /\ returned' = TRUE
    /\ UNCHANGED <<fn, args>>
    /\ UNCHANGED <<mergeVars, parseVars, runVars>>

\* the events of one run of translate-existing-events.py and the backend
InitCompleteAllCalls ==
    /\ fn = "complete_all_calls"
    /\ args \in {[events |-> e, env |-> v] :
                    e \in SeqsUpTo(StoredEvents, MaxEvents), v \in CompleteEnvs}

\* the backend calls and sleeps of the translation loop of one run of
\* translate-existing-events.py
CompleteAllBackendCalls ==
    /\ fn = "complete_all_calls"
    /\ ~returned
    /\ ret' = [log |-> complete_all_calls(args.events, args.env)]
    /\ returned' = TRUE
    /\ UNCHANGED <<fn, args>>
    /\ UNCHANGED <<mergeVars, parseVars, runVars>>

InitCall ==
    /\ \/ InitDeduplicateNews
       \/ InitParseAllCalls
       \/ InitCompleteAllCalls
       \/ InitCreateTemplates
       \/ InitCreateTickerTexts
       \/ InitParseTimestamp
       \/ InitCompleteAll
       \/ InitGetCoordinates
       \/ InitClassifyEventType
    /\ ret = [none |-> TRUE]
    /\ returned = FALSE
    /\ MergeIdle
    /\ ParseIdle
    /\ RunIdle

NextCall ==
    \/ DeduplicateNews
    \/ ParseAllBackendCalls
    \/ CompleteAllBackendCalls
    \/ CreateTemplates
    \/ CreateTickerTexts
    \/ ParseTimestamp
    \/ CompleteAll
    \/ GetCoordinates
    \/ ClassifyEventType

SpecCall == InitCall /\ [][NextCall]_vars

-----------------------------------------------------------------------------
(* Properties of the functions called on their own, under SpecCall.        *)

\* u is s without some of its elements
IsSubsequence(u, s) ==
    \E f \in [DOMAIN u -> DOMAIN s] :
        /\ \A i, j \in DOMAIN u : i < j => f[i] < f[j]
        /\ \A i \in DOMAIN u : u[i] = s[f[i]]

\* the fingerprint of a news item: the first fifty characters of its text,
\* or of its title when it has no text, in lower case
Fingerprint(item) ==
    LET text == IF "text" \in DOMAIN item /\ item["text"] # <<>>
                THEN item["text"] ELSE item["title"]
    IN  [i \in 1..Min(5, Len(text)) |-> LowerTok(text[i])]

\* no two items of the list have the same fingerprint
DistinctFingerprints(items) ==
    \A i, j \in DOMAIN items : i # j => Fingerprint(items[i]) # Fingerprint(items[j])

\* C11: deduplicate_news(news_items, existing_news) returns a subsequence
\* of news_items in which no item has the fingerprint of an item of
\* existing_news or of an earlier returned item; and if the stored news had
\* pairwise distinct fingerprints, so has the merged news list the run
\* writes.
C11_NewsDeduplicated ==
    (fn = "deduplicate_news" /\ returned) =>
        /\ IsSubsequence(ret.unique_news, args.news_items)
        /\ \A i \in DOMAIN ret.unique_news :
               \A j \in DOMAIN args.existing_news :
                   Fingerprint(ret.unique_news[i]) # Fingerprint(args.existing_news[j])
        /\ DistinctFingerprints(ret.unique_news)
        /\ DistinctFingerprints(args.existing_news) => DistinctFingerprints(ret.merged_news)

\* C11 witness: of two relevant items that differ in case only, and a third
\* with the fingerprint of a stored item, the first alone is returned and
\* merged with the stored news.
C11_Witness ==
    /\ fn = "deduplicate_news"
    /\ returned
    /\ Len(args.news_items) = 2
    /\ args.news_items[1]["text"] = <<"israel", "a", "b", "c", "d">>
    /\ args.news_items[2]["text"] = <<"ISRAEL", "a", "b", "c", "d">>
    /\ Len(args.existing_news) = 1
    /\ args.existing_news[1]["text"] = <<"iran", "talks">>
    /\ ret.unique_news = <<args.news_items[1]>>
    /\ Len(ret.merged_news) = 2

\* C13: classify_event_type(text) returns the first type, in the order
\* strike, blockade, airspace, intel, diplomatic, that has a pattern found
\* in the lower-cased text, and intel when no type has one; a second call
\* with the same text returns the same type.
C13_FirstTypeWins ==
    (fn = "classify_event_type" /\ returned) =>
        LET order == <<"strike", "blockade", "airspace", "intel", "diplomatic">>
            matches(type) ==
                \E k \in DOMAIN EVENT_TYPE_PATTERNS :
                    /\ EVENT_TYPE_PATTERNS[k].type = type
                    /\ \E j \in DOMAIN EVENT_TYPE_PATTERNS[k].patterns :
                           \E i \in DOMAIN args.text :
                               LowerTok(args.text[i]) = EVENT_TYPE_PATTERNS[k].patterns[j]
        IN  /\ (\A n \in DOMAIN order : ~matches(order[n])) => ret.type = "intel"
            /\ \A n \in DOMAIN order :
                   (matches(order[n]) /\ \A m \in 1..(n - 1) : ~matches(order[m]))
                       => ret.type = order[n]
            /\ ret.again = ret.type

\* C13 witness: a text with a diplomatic word followed by a strike word in
\* capitals is a strike.
C13_Witness ==
    /\ fn = "classify_event_type"
    /\ returned
    /\ args.text = <<"warn", "STRIKE">>
    /\ ret.type = "strike"

\* C14: get_coordinates(locationName, country) returns a pair of
\* coordinates for every combination of arguments: the entry of the
\* location table when locationName is present and in the table, else the
\* entry of the country table when country is in it, else [28.0, 43.0].
C14_CoordinatesTotal ==
    (fn = "get_coordinates" /\ returned) =>
        LET present == args.location_name # NoneText /\ args.location_name # <<>>
            in_locations == {k \in DOMAIN DEFAULT_LOCATIONS :
                                present /\ DEFAULT_LOCATIONS[k].name = args.location_name[1]}
            in_countries == {k \in DOMAIN COUNTRY_COORDINATES :
                                COUNTRY_COORDINATES[k].country = args.country}
        IN  /\ ret.coordinates \in Int \X Int
            /\ in_locations # {} =>
                   \E k \in in_locations : ret.coordinates = DEFAULT_LOCATIONS[k].coordinates
            /\ (in_locations = {} /\ in_countries # {}) =>
                   \E k \in in_countries : ret.coordinates = COUNTRY_COORDINATES[k].coordinates
            /\ (in_locations = {} /\ in_countries = {}) => ret.coordinates = <<2800, 4300>>

\* C14 witness: a known location in a known country gets the coordinates
\* of the location, not of the country.
C14_Witness ==
    /\ fn = "get_coordinates"
    /\ returned
    /\ args.location_name = <<"tehran_zh">>
    /\ args.country = "israel"
    /\ ret.coordinates = <<3569, 5139>>

\* C15: a translation-completion run adds, removes and reorders no event,
\* changes no field of an event other than its translations, changes no
\* translation of a language other than en and ar, and changes no en or ar
\* translation field that was not empty; what it changes are en and ar
\* translation fields that were absent or empty.
C15_OnlyMissingTranslations ==
    (fn = "complete_all" /\ returned) =>
        /\ Len(ret.events) = Len(args.events)
        /\ \A i \in DOMAIN args.events :
               LET before == args.events[i]
                   after == ret.events[i]
                   old == IF "translations" \in DOMAIN before
                          THEN before["translations"] ELSE <<>>
                   new == IF "translations" \in DOMAIN after
                          THEN after["translations"] ELSE <<>>
               IN  /\ DOMAIN after \ {"translations"} = DOMAIN before \ {"translations"}
                   /\ \A k \in DOMAIN before \ {"translations"} : after[k] = before[k]
                   /\ DOMAIN old \subseteq DOMAIN new
                   /\ DOMAIN new \subseteq DOMAIN old \cup {"en", "ar"}
                   /\ \A lang \in DOMAIN old \ {"en", "ar"} : new[lang] = old[lang]
                   /\ \A lang \in DOMAIN old \cap {"en", "ar"} :
                          \A f \in DOMAIN old[lang] :
                              /\ f \in DOMAIN new[lang]
                              /\ old[lang][f] \notin {<<>>, NoneText} =>
                                     new[lang][f] = old[lang][f]

\* C15 witness: an event whose en translation has a title and an empty
\* desc and which has no ar translation gets the en desc and the ar title
\* and keeps its en title.
C15_Witness ==
    /\ fn = "complete_all"
    /\ returned
    /\ Len(args.events) = 2
    /\ args.env.backend = BackendUp
    /\ args.events[1] =
           StoredEvent("100", [zh |-> ZhEntry, en |-> [title |-> <<"old_en">>, desc |-> <<>>]])
    /\ ret.events[1]["translations"]["en"]["title"] = <<"old_en">>
    /\ ret.events[1]["translations"]["en"]["desc"] = <<"en:", "desc_zh">>
    /\ ret.events[1]["translations"]["ar"]["title"] = <<"ar:", "title_zh">>

\* C18: for every well-formed timestamp in the legacy format, whatever its
\* weekday and month, the time of the event and of the news item is that
\* timestamp; the processing time is substituted only for a timestamp that
\* is missing, not a string, or in neither format.
C18_LegacyTimestampKept ==
    (fn = "parse_timestamp" /\ returned) =>
        /\ args.created_at.form = "legacy" =>
               /\ ret.event_time = args.created_at.instant
               /\ ret.news_time = args.created_at.instant
        /\ (ret.event_time = args.now \/ ret.news_time = args.now) =>
               args.created_at.form \in {"empty", "number", "garbage"}

\* C19: every entry of the ticker lists of create_ticker_texts is formatted
\* from a news item or a message whose text contains, in any case, a
\* keyword of the relevance list.
C19_TickerRelevant ==
    (fn = "create_ticker_texts" /\ returned) =>
        LET relevant(text) ==
                \E i \in DOMAIN text : \E k \in DOMAIN ME_KEYWORDS :
                    LowerTok(text[i]) = ME_KEYWORDS[k]
            inputs == {args.news_items[i]["text"] : i \in DOMAIN args.news_items}
                      \cup {args.tweets[i]["text"] : i \in DOMAIN args.tweets}
        IN  \A lang \in {"zh", "en", "ar"} :
                \A n \in DOMAIN ret.ticker_texts[lang] :
                    \E text \in inputs :
                        /\ relevant(text)
                        /\ \E cut \in {8, 10} :
                               ret.ticker_texts[lang][n].text =
                                   SubSeq(text, 1, Min(Len(text), cut))

\* C20: create_templates returns for zh, en and ar lists of one length, of
\* at most as many entries as the limit, without two entries of the same
\* (type, country); the k-th entry is projected from the first event, in
\* input order, that carries the k-th distinct (type, country), and its
\* title, desc and locationName are those of the language's translation, or
\* the event's own where the translation lacks the field.
C20_TemplatesFirstOfEachPair ==
    (fn = "create_templates" /\ returned) =>
        LET events == args.events
            pair(e) == <<e["type"], e["country"]>>
            firsts == {i \in DOMAIN events : \A j \in 1..(i - 1) : pair(events[j]) # pair(events[i])}
            kth(k) == CHOOSE i \in firsts : Cardinality({j \in firsts : j <= i}) = k
            field(e, lang, f) ==
                IF /\ "translations" \in DOMAIN e
                   /\ lang \in DOMAIN e["translations"]
                   /\ f \in DOMAIN e["translations"][lang]
                THEN e["translations"][lang][f] ELSE e[f]
        IN  \A lang \in {"zh", "en", "ar"} :
                LET list == ret.templates[lang]
                IN  /\ Len(list) = Len(ret.templates["zh"])
                    /\ Len(list) <= TEMPLATE_LIMIT
                    /\ Len(list) = Min(Cardinality(firsts), TEMPLATE_LIMIT)
                    /\ \A m, n \in DOMAIN list : m # n => pair(list[m]) # pair(list[n])
                    /\ \A k \in DOMAIN list :
                           /\ pair(list[k]) = pair(events[kth(k)])
                           /\ list[k].tweetId = events[kth(k)]["tweetId"]
                           /\ \A f \in {"title", "desc", "locationName"} :
                                  list[k][f] = field(events[kth(k)], lang, f)

\* C20 witness: of three events of three (type, country) pairs, with a
\* limit smaller than three, the last gets no template, and the en template
\* of an event whose en translation has a title only has that title and
\* the event's own desc.
C20_Witness ==
    /\ fn = "create_templates"
    /\ returned
    /\ Len(args.events) > TEMPLATE_LIMIT
    /\ \A i, j \in DOMAIN args.events :
           i # j => TemplateKey(args.events[i]) # TemplateKey(args.events[j])
    /\ args.events[1] = [StoredEvent("200", [zh |-> ZhEntry, en |-> [title |-> <<"old_en">>]])
                            EXCEPT !.country = "iran"]
    /\ Len(ret.templates["en"]) = TEMPLATE_LIMIT
    /\ ret.templates["en"][1].title = <<"old_en">>
    /\ ret.templates["en"][1].desc = <<"desc">>
    /\ ret.templates["ar"][1].title = <<"title">>

\* C21: within one run, between any two calls of the translation backend
\* there is a sleep of the fixed delay, whether the earlier call succeeded
\* or failed, in the conversion loop of twitter-to-events and in the
\* translation loop of translate-existing-events.
C21_CallsSeparatedByDelay ==
    (fn \in {"parse_all_calls", "complete_all_calls"} /\ returned) =>
        \A i, j \in DOMAIN ret.log :
            (i < j /\ ret.log[i].op = "translate" /\ ret.log[j].op = "translate") =>
                \E k \in (i + 1)..(j - 1) :
                    ret.log[k].op = "sleep" /\ ret.log[k].seconds = TRANSLATE_DELAY

\* C22: a run of twitter-to-events whose searches and account fetches
\* return no message exits with status 0 and has not written the Store,
\* which is as it was before the run, whatever the news search returned.
C22_NoTweetsExitsZeroUnwritten ==
    (script = "twitter" /\ pc = "exited" /\ all_tweets = <<>>) =>
        (exit_code = 0 /\ ~wrote /\ store = pre_store)

=============================================================================
